---- MODULE Spec2Model ----
(***************************************************************************)
(* Model of the chunked transfer code of the storage service:              *)
(*   - chunk planning of DownloadFileParallel and uploadFileParallel,      *)
(*   - the goroutines of DownloadFileParallel: the assembler that fills    *)
(*     the chunks channel and writes results to the pipe in offset order,  *)
(*     the maxWorkers workers with their retry loop, and the goroutine     *)
(*     that closes the results channel.                                    *)
(* A payload is a run of object bytes [from, from+len): the object's byte  *)
(* at offset k is identified with k, so reordering, loss and duplication   *)
(* of bytes are all visible in the output.                                 *)
(***************************************************************************)
EXTENDS Integers, Sequences, FiniteSets, Bags, TLC

\* ------------------------------------------------------------------ constants
defaultChunkSize == 5 * 1024 * 1024
chunkSize == 10 * 1024 * 1024
maxWorkers == 5
maxConcurrentUploads == 5
maxRetries == 3

\* ------------------------------------------------------------------- bounds
\* Largest number of chunks of a modelled download.
MaxChunks == 6
\* Failures (failed store calls, a consumer that closes the stream, a cancelled
\* context) are injected into downloads of at most MaxFaultyChunks chunks, at
\* most MaxFaults of them per download.
MaxFaultyChunks == 2
MaxFaults == 3
\* Largest small total size / chunk size tried by the planning specification.
MaxPlanSize == 12
MaxPlanChunk == 4

\* Largest object size for which every range request is tried; start and end
\* run from -1 to one past it.
MaxRangeSize == 4

\* Largest number of chunks of an upload, and the failures that may be
\* injected into one upload.
MaxUpChunks == 6

MaxUpFaults == 2

\* Largest file size of the requests handled; the numbers in Range headers
\* run from 0 to one past it.
MaxFileSize == 3

\* ------------------------------------------------------------ chunk planning
\* A planner that always counts one chunk more.
NumChunksExtra(total, cs) == total \div cs + 1

\* A planner that plans one chunk even for an empty object.
NumChunksAtLeastOne(total, cs) ==
    IF total = 0 THEN 1 ELSE (total + cs - 1) \div cs

\* Go's integer division truncates toward zero.
GoDiv(a, b) == IF a >= 0 THEN a \div b ELSE -((-a) \div b)

\* numChunks := (totalSize + defaultChunkSize - 1) / defaultChunkSize
NumChunks(total, cs) == GoDiv(total + cs - 1, cs)

\* Download descriptor i: Start = i*cs, End = min(Start+cs, total) - 1.
ChunkStart(i, cs) == i * cs

ChunkEndOff(i, total, cs) == ChunkStart(i, cs) + cs

\* A planner that takes the exclusive end for the inclusive one.
ChunkEndExclusive(i, total, cs) ==
    LET end == ChunkEndOff(i, total, cs)
    IN  IF end > total THEN total ELSE end

ChunkEnd(i, total, cs) ==
    LET end == ChunkEndOff(i, total, cs)
    IN  (IF end > total THEN total ELSE end) - 1

Descriptor(i, total, cs) ==
    [Start |-> ChunkStart(i, cs), End |-> ChunkEnd(i, total, cs)]

DownloadPlan(total, cs) ==
    [k \in 1..NumChunks(total, cs) |-> Descriptor(k - 1, total, cs)]

\* Upload chunk chunkNum: offset = chunkNum*cs,
\* size = totalSize-offset if offset+cs > totalSize, else cs.
UploadOffset(chunkNum, cs) == chunkNum * cs

UploadSize(chunkNum, total, cs) ==
    LET offset == UploadOffset(chunkNum, cs)
    IN  IF offset + cs > total THEN total - offset ELSE cs

UploadPlan(total, cs) ==
    [k \in 1..NumChunks(total, cs) |->
        [offset |-> UploadOffset(k - 1, cs), size |-> UploadSize(k - 1, total, cs)]]

\* ------------------------------------------------------- download: the state
VARIABLES
    totalSize,      \* file.SizeBytes
    asmPc,          \* assembler goroutine: "fill", "recv", "write", "done"
    asmI,           \* its loop counter i
    chunks,         \* the chunks channel (buffered, capacity numChunks)
    chunksClosed,
    results,        \* the results channel (buffered, capacity numChunks)
    resultsClosed,  \* close(results) after wg.Wait()
    errors,         \* the errors channel (buffered, capacity 1)
    assembledData,  \* map Start -> Data
    currentOffset,
    wbuf,           \* the run a blocked pw.Write still has to hand over
    pwClosed,       \* "open", or the error the write side was closed with
    prClosed,       \* the consumer closed the read side
    out,            \* runs the consumer has read, adjacent runs merged
    readerSaw,      \* "none", or the error the consumer's Read returned
    workers,        \* bag of worker goroutine states
    ctxCancelled,   \* the request context is cancelled
    sent,           \* per chunk index: results sent for its descriptor
    inFlight,       \* instrumented counter of running fetches
    reordered,      \* some payload reached the assembler ahead of the cursor
    taken,          \* history: times each descriptor was dequeued
    tries,          \* history: GetFileDataRange calls made for each descriptor
    outcome,        \* history: the result sent for each descriptor, if any
    faults,         \* failures that may still be injected (store errors, consumer close)
    planIn,         \* planning specification: the input <<totalSize, chunkSize>>
    planOut,        \* planning specification: the plan computed, if any
    rangeIn,        \* range specification: the call's <<SizeBytes, start, end>>
    rangeOut,       \* range specification: the call's outcome and store requests
    upSize,         \* upload: totalSize
    upPc,           \* upload: position of the caller of uploadFileParallel
    upI,            \* upload: the dispatch loop's i
    semaphore,      \* upload: slots taken in the semaphore channel
    upTasks,        \* upload: position of the goroutine of each chunk
    upReads,        \* upload: what file.ReadAt returned for each chunk
    upErrors,       \* upload: the errors channel
    upWritten,      \* upload: the UploadBytes calls that succeeded (a bag)
    upDeleted,      \* upload: keys for which DeleteObject was called
    upDispatched,   \* upload history: goroutines started for each chunk
    upRet,          \* upload: the value returned
    upFaults,       \* upload: failures that may still be injected
    hIn,            \* handlers: the request (file size, Range header)
    hOut            \* handlers: the response written and the fetch made

vars == <<totalSize, asmPc, asmI, chunks, chunksClosed, results, resultsClosed,
          errors, assembledData, currentOffset, wbuf, pwClosed, prClosed, out,
          readerSaw, workers, ctxCancelled, sent, inFlight, reordered,
          taken, tries, outcome, faults, planIn, planOut, rangeIn, rangeOut,
          upSize, upPc, upI, semaphore, upTasks, upReads, upErrors, upWritten,
          upDeleted, upDispatched, upRet, upFaults, hIn, hOut>>

dlVars == <<totalSize, asmPc, asmI, chunks, chunksClosed, results, resultsClosed,
            errors, assembledData, currentOffset, wbuf, pwClosed, prClosed, out,
            readerSaw, workers, ctxCancelled, sent, inFlight, reordered,
            taken, tries, outcome, faults>>

planVars == <<planIn, planOut>>

rangeVars == <<rangeIn, rangeOut>>

hVars == <<hIn, hOut>>

upVars == <<upSize, upPc, upI, semaphore, upTasks, upReads, upErrors, upWritten,
            upDeleted, upDispatched, upRet, upFaults>>

numChunks == NumChunks(totalSize, defaultChunkSize)

NoData == [from |-> 0, len |-> 0]

EmptyMap == [k \in {} |-> NoData]

\* Index of the descriptor that starts at offset s.
IndexOf(s) == s \div defaultChunkSize

\* Total sizes tried: empty, one byte, whole multiples of the chunk size, and
\* the size of MaxChunks chunks whose last chunk holds one byte.
Sizes ==
    {0, 1} \cup {n * defaultChunkSize : n \in 1..(MaxChunks - 1)}
           \cup {(MaxChunks - 1) * defaultChunkSize + 1}

\* The failures that may be injected into a download of the given size.
Budget(total) ==
    IF NumChunks(total, defaultChunkSize) <= MaxFaultyChunks THEN MaxFaults ELSE 0

\* Worker goroutine states: position, the descriptor held, the loop variable
\* retry, and err, the error of the last GetFileDataRange call ("nil" before
\* the first call returns).
WRange == [pc |-> "range", Start |-> 0, End |-> 0, retry |-> 0, err |-> "nil"]
WDone == [pc |-> "done", Start |-> 0, End |-> 0, retry |-> 0, err |-> "nil"]
WAt(pc, st, en, r, e) == [pc |-> pc, Start |-> st, End |-> en, retry |-> r, err |-> e]

\* A pool started with "i <= maxWorkers".
WorkerCountExtra == maxWorkers + 1

\* A pool started with "i := maxWorkers": the start loop never runs.
WorkerCountNone == maxWorkers - maxWorkers

\* for i := 0; i < maxWorkers; i++ { go func() ... }
WorkerCount == maxWorkers

Move(b, from, to) == (b (-) SetToBag({from})) (+) SetToBag({to})

WorkersAt(pcs) == {w \in BagToSet(workers) : w.pc \in pcs}

DlInit(sizes, cancelled) ==
    /\ totalSize \in sizes
    /\ asmPc = "fill"
    /\ asmI = 0
    /\ chunks = <<>>
    /\ chunksClosed = FALSE
    /\ results = <<>>
    /\ resultsClosed = FALSE
    /\ errors = <<>>
    /\ assembledData = EmptyMap
    /\ currentOffset = 0
    /\ wbuf = NoData
    /\ pwClosed = "open"
    /\ prClosed = FALSE
    /\ out = <<>>
    /\ readerSaw = "none"
    /\ workers = [w \in {WRange} |-> WorkerCount]
    /\ ctxCancelled = cancelled
    /\ sent = [c \in 0..(numChunks - 1) |-> 0]
    /\ taken = [c \in 0..(numChunks - 1) |-> 0]
    /\ tries = [c \in 0..(numChunks - 1) |-> 0]
    /\ outcome = [c \in 0..(numChunks - 1) |-> "none"]
    /\ inFlight = 0
    /\ reordered = FALSE
    /\ faults = IF cancelled THEN 0 ELSE Budget(totalSize)

NoPlan == [kind |-> "none", chunks |-> <<>>]

\* No GetFileDataRange call has been made.
NoRange == [res |-> "none", reqs |-> <<>>]

\* Parts of a range spec split at "-": the empty string, a decimal number,
\* or text strconv.ParseInt rejects.
EmptyPart == [kind |-> "empty", val |-> 0]
BadPart == [kind |-> "bad", val |-> 0]
Num(n) == [kind |-> "num", val |-> n]

\* A request without Range header.
NoHeader == [present |-> FALSE, prefix |-> FALSE, specs |-> <<>>]

\* http.ResponseWriter before anything is written: status 0, no
\* Content-Length set, no fetch made.
NoResponse ==
    [handler |-> "none", status |-> 0, declared |-> -1, body |-> "none",
     parsed |-> [err |-> FALSE, ranges |-> <<>>],
     fetched |-> FALSE, start |-> 0, end |-> 0, fetchErr |-> FALSE]

\* No request is handled.
HIdle ==
    /\ hIn = [size |-> 0, header |-> NoHeader]
    /\ hOut = NoResponse

\* chunks := (totalSize + chunkSize - 1) / chunkSize
upChunks == NumChunks(upSize, chunkSize)

\* uploadFileParallel has not returned; it returned nil.
NoReturn == [err |-> "none", chunkNum |-> 0]
NilReturn == [err |-> "nil", chunkNum |-> 0]

\* uploadFileParallel is called with a file of one of the given sizes.
UpInit(sizes, budget) ==
    /\ upSize \in sizes
    /\ upPc = "entry"
    /\ upI = 0
    /\ semaphore = 0
    /\ upTasks = [n \in 0..(upChunks - 1) |-> "new"]
    /\ upReads = [n \in 0..(upChunks - 1) |-> "none"]
    /\ upErrors = <<>>
    /\ upWritten = EmptyBag
    /\ upDeleted = {}
    /\ upDispatched = [n \in 0..(upChunks - 1) |-> 0]
    /\ upRet = NoReturn
    /\ upFaults = budget

Init ==
    /\ DlInit(Sizes, FALSE)
    /\ planIn = <<0, 1>>
    /\ planOut = NoPlan
    /\ rangeIn = <<0, 0, 0>>
    /\ rangeOut = NoRange
    /\ UpInit({0}, 0)
    /\ HIdle

\* ------------------------------------------------- download: the assembler
\* chunks <- ChunkInfo{Start: start, End: end - 1}, one descriptor per step.
AsmFill ==
    /\ asmPc = "fill"
    /\ asmI < numChunks
    /\ chunks' = Append(chunks, Descriptor(asmI, totalSize, defaultChunkSize))
    /\ asmI' = asmI + 1
    /\ UNCHANGED <<totalSize, asmPc, chunksClosed, results, resultsClosed,
                       errors, assembledData, currentOffset, wbuf, pwClosed,
                       prClosed, out, readerSaw, workers, ctxCancelled, sent,
                       inFlight, reordered, taken, tries, outcome, faults,
                       planIn, planOut, rangeIn, rangeOut, upSize, upPc, upI,
                       semaphore, upTasks, upReads, upErrors, upWritten,
                       upDeleted, upDispatched, upRet, upFaults, hIn, hOut>>

\* pw.Close(): the read side sees io.EOF once the written bytes are consumed.
PwClose == "EOF"

\* close(chunks); with no chunk the results loop is skipped and the deferred
\* pw.Close() runs.
AsmCloseChunks ==
    /\ asmPc = "fill"
    /\ asmI = numChunks
    /\ chunksClosed' = TRUE
    /\ asmI' = 0
    /\ IF numChunks > 0
       THEN asmPc' = "recv" /\ pwClosed' = pwClosed
       ELSE asmPc' = "done" /\ pwClosed' = PwClose
    /\ UNCHANGED <<totalSize, chunks, results, resultsClosed, errors,
                       assembledData, currentOffset, wbuf, prClosed, out,
                       readerSaw, workers, ctxCancelled, sent, inFlight,
                       reordered, taken, tries, outcome, faults, planIn,
                       planOut, rangeIn, rangeOut, upSize, upPc, upI,
                       semaphore, upTasks, upReads, upErrors, upWritten,
                       upDeleted, upDispatched, upRet, upFaults, hIn, hOut>>

\* An assembler that files every payload at the cursor, in arrival order.
StoreKeyArrival(result, cur) == cur

\* The key a successful result is stored under: assembledData[result.Start].

StoreKey(result, cur) == result.Start

\* An assembler that starts writing only when the last result has come in.
AtCursorAfterAll(map, cur, i) == cur \in DOMAIN map /\ i + 1 >= numChunks

\* data, ok := assembledData[currentOffset]; if !ok { break }
AtCursor(map, cur, i) == cur \in DOMAIN map

\* The inner "for" of the results loop, from its head: write the entry at
\* currentOffset if there is one, else go on with the next result, and after
\* the last one return (deferred pw.Close()).
AsmDrain(map, cur, i) ==
    /\ assembledData' = map
    /\ currentOffset' = cur
    /\ IF AtCursor(map, cur, i)
       THEN /\ asmPc' = "write"
            /\ wbuf' = map[cur]
            /\ asmI' = i
            /\ pwClosed' = pwClosed
       ELSE /\ wbuf' = NoData
            /\ asmI' = i + 1
            /\ IF i + 1 < numChunks
               THEN asmPc' = "recv" /\ pwClosed' = pwClosed
               ELSE asmPc' = "done" /\ pwClosed' = PwClose

\* A receive on a closed, drained channel yields the zero ChunkInfo.
ZeroResult == [Start |-> 0, Data |-> NoData, Error |-> "nil"]

\* An assembler that goes on to the next result after recording an error.
AfterErrorContinue == "recv"

\* errors <- result.Error is followed by return: the goroutine ends.
AfterError == "done"

\* result := <-results, then the error check and the store.
AsmRecv ==
    /\ asmPc = "recv"
    /\ results # <<>> \/ resultsClosed
    /\ LET result == IF results # <<>> THEN Head(results) ELSE ZeroResult
       IN  /\ results' = IF results # <<>> THEN Tail(results) ELSE results
           /\ reordered' = (reordered \/ (result.Error = "nil"
                                            /\ result.Start # currentOffset))
           /\ IF result.Error # "nil"
              THEN /\ errors' = Append(errors, result.Error)
                   /\ asmPc' = AfterError
                   /\ pwClosed' = PwClose
                   /\ UNCHANGED <<asmI, assembledData, currentOffset, wbuf>>
              ELSE /\ errors' = errors
                   /\ AsmDrain((StoreKey(result, currentOffset) :> result.Data)
                                   @@ assembledData,
                               currentOffset, asmI)
    /\ UNCHANGED <<totalSize, chunks, chunksClosed, resultsClosed, prClosed, out,
                       readerSaw, workers, ctxCancelled, sent, inFlight,
                       taken, tries, outcome, faults, planIn, planOut,
                       rangeIn, rangeOut, upSize, upPc, upI, semaphore,
                       upTasks, upReads, upErrors, upWritten, upDeleted,
                       upDispatched, upRet, upFaults, hIn, hOut>>

\* The output with one more run read; a run that continues the last one is
\* merged into it.
Emit(o, run) ==
    IF run.len = 0 THEN o
    ELSE IF o # <<>> /\ o[Len(o)].from + o[Len(o)].len = run.from
         THEN [o EXCEPT ![Len(o)].len = @ + run.len]
         ELSE Append(o, run)

\* How many bytes one Read of the consumer takes from a blocked Write: all
\* that is left, or (once per Write) half of it.
ReadSizes ==
    IF wbuf.len > 1 /\ wbuf.len = assembledData[currentOffset].len
    THEN {wbuf.len, wbuf.len \div 2}
    ELSE {wbuf.len}

\* An assembler that advances the cursor to the last byte written.
AdvanceShort(cur, data) == cur + data.len - 1

\* delete(assembledData, currentOffset); currentOffset += int64(len(data))
Advance(cur, data) == cur + data.len

\* The consumer reads from the pipe while pw.Write(data) is blocked; when all
\* of data is taken the Write returns and the assembler goes on.
PipeRead ==
    /\ asmPc = "write"
    /\ ~prClosed
    /\ \E n \in ReadSizes :
        /\ out' = Emit(out, [from |-> wbuf.from, len |-> n])
        /\ IF n < wbuf.len
           THEN /\ wbuf' = [from |-> wbuf.from + n, len |-> wbuf.len - n]
                /\ UNCHANGED <<asmPc, asmI, assembledData, currentOffset, pwClosed>>
           ELSE LET data == assembledData[currentOffset]
                IN  AsmDrain([k \in DOMAIN assembledData \ {currentOffset} |->
                                 assembledData[k]],
                             Advance(currentOffset, data), asmI)
    /\ UNCHANGED <<totalSize, chunks, chunksClosed, results, resultsClosed,
                       errors, prClosed, readerSaw, workers, ctxCancelled,
                       sent, inFlight, reordered, taken, tries, outcome,
                       faults, planIn, planOut, rangeIn, rangeOut, upSize,
                       upPc, upI, semaphore, upTasks, upReads, upErrors,
                       upWritten, upDeleted, upDispatched, upRet, upFaults,
                       hIn, hOut>>

\* pw.Write fails with io.ErrClosedPipe once the consumer has closed the read
\* side: errors <- err; return.
AsmWriteFail ==
    /\ asmPc = "write"
    /\ prClosed
    /\ errors' = Append(errors, "closedpipe")
    /\ asmPc' = "done"
    /\ pwClosed' = PwClose
    /\ wbuf' = NoData
    /\ UNCHANGED <<totalSize, asmI, chunks, chunksClosed, results, resultsClosed,
                       assembledData, currentOffset, prClosed, out, readerSaw,
                       workers, ctxCancelled, sent, inFlight, reordered,
                       taken, tries, outcome, faults, planIn, planOut,
                       rangeIn, rangeOut, upSize, upPc, upI, semaphore,
                       upTasks, upReads, upErrors, upWritten, upDeleted,
                       upDispatched, upRet, upFaults, hIn, hOut>>

\* A Read of the consumer after the write side was closed returns its error.
ReaderEnd ==
    /\ pwClosed # "open"
    /\ ~prClosed
    /\ readerSaw = "none"
    /\ readerSaw' = pwClosed
    /\ UNCHANGED <<totalSize, asmPc, asmI, chunks, chunksClosed, results,
                       resultsClosed, errors, assembledData, currentOffset,
                       wbuf, pwClosed, prClosed, out, workers, ctxCancelled,
                       sent, inFlight, reordered, taken, tries, outcome,
                       faults, planIn, planOut, rangeIn, rangeOut, upSize,
                       upPc, upI, semaphore, upTasks, upReads, upErrors,
                       upWritten, upDeleted, upDispatched, upRet, upFaults,
                       hIn, hOut>>

\* The consumer closes the read side before the end of the stream.
ReaderClose ==
    /\ ~prClosed
    /\ readerSaw = "none"
    /\ faults > 0
    /\ faults' = faults - 1
    /\ prClosed' = TRUE
    /\ UNCHANGED <<totalSize, asmPc, asmI, chunks, chunksClosed, results,
                       resultsClosed, errors, assembledData, currentOffset,
                       wbuf, pwClosed, out, readerSaw, workers, ctxCancelled,
                       sent, inFlight, reordered, taken, tries, outcome,
                       planIn, planOut, rangeIn, rangeOut, upSize, upPc, upI,
                       semaphore, upTasks, upReads, upErrors, upWritten,
                       upDeleted, upDispatched, upRet, upFaults, hIn, hOut>>

\* ---------------------------------------------------- download: the workers
\* A store call may fail while the budget of injected failures lasts; under a
\* cancelled context it fails without using the budget.
CanFail == ctxCancelled \/ faults > 0

Charged == IF ctxCancelled THEN faults ELSE faults - 1

\* The bytes GetFileDataRange(chunkCtx, ..., chunk.Start, chunk.End) yields.
FetchData(start, end) == [from |-> start, len |-> end - start + 1]

ErrorResult(e) == [Start |-> 0, Data |-> NoData, Error |-> e]

\* chunkCtx, made once per descriptor by context.WithTimeout(ctx, 30s) before
\* the retry loop, is done when the caller's ctx is cancelled or when its
\* deadline has passed; a call that ran into the deadline returned "timeout".
ChunkCtxDone(e) == ctxCancelled \/ e = "timeout"

\* A GetFileDataRange call begun under a chunkCtx that is already done is
\* marked: it can only return an error.
AttemptPc(e) == IF ChunkCtxDone(e) THEN "attemptCancelled" ELSE "attempt"

\* The errors a GetFileDataRange call of worker w may return: the context's
\* error when chunkCtx is done; otherwise, while the budget lasts, a transient
\* store error, a terminal one (object not found, access denied), or the
\* deadline of chunkCtx passing during the call.
FailKinds(w) ==
    IF w.err = "timeout" THEN {"timeout"}
    ELSE IF ctxCancelled THEN {"cancelled"}
    ELSE IF faults > 0 THEN {"transient", "terminal", "timeout"}
    ELSE {}

FailCost(w) == IF ChunkCtxDone(w.err) THEN 0 ELSE 1

\* A worker that only looks at the head of the channel.
AfterDequeuePeek(q) == q

\* chunk := <-chunks removes the descriptor received from the channel.
AfterDequeue(q) == Tail(q)

AttemptPcs == {"attempt", "attemptCancelled"}

\* for chunk := range chunks: a worker takes the next descriptor and makes the
\* first GetFileDataRange call.
WDequeue ==
    /\ BagIn(WRange, workers)
    /\ chunks # <<>>
    /\ LET chunk == Head(chunks)
       IN  /\ workers' = Move(workers, WRange,
                               WAt(AttemptPc("nil"), chunk.Start, chunk.End, 0, "nil"))
           /\ taken' = [taken EXCEPT ![IndexOf(chunk.Start)] = @ + 1]
           /\ tries' = [tries EXCEPT ![IndexOf(chunk.Start)] = @ + 1]
    /\ chunks' = AfterDequeue(chunks)
    /\ inFlight' = inFlight + 1
    /\ UNCHANGED <<totalSize, asmPc, asmI, chunksClosed, results, resultsClosed,
                       errors, assembledData, currentOffset, wbuf, pwClosed,
                       prClosed, out, readerSaw, ctxCancelled, sent,
                       reordered, outcome, faults, planIn, planOut, rangeIn,
                       rangeOut, upSize, upPc, upI, semaphore, upTasks,
                       upReads, upErrors, upWritten, upDeleted, upDispatched,
                       upRet, upFaults, hIn, hOut>>

\* The range loop ends when chunks is closed and drained: wg.Done().
WExit ==
    /\ BagIn(WRange, workers)
    /\ chunks = <<>>
    /\ chunksClosed
    /\ workers' = Move(workers, WRange, WDone)
    /\ UNCHANGED <<totalSize, asmPc, asmI, chunks, chunksClosed, results,
                       resultsClosed, errors, assembledData, currentOffset,
                       wbuf, pwClosed, prClosed, out, readerSaw, ctxCancelled,
                       sent, inFlight, reordered, taken, tries, outcome,
                       faults, planIn, planOut, rangeIn, rangeOut, upSize,
                       upPc, upI, semaphore, upTasks, upReads, upErrors,
                       upWritten, upDeleted, upDispatched, upRet, upFaults,
                       hIn, hOut>>

\* GetFileDataRange returns an error; time.Sleep(retry+1 seconds) follows,
\* whatever the error and whatever the value of retry.
WAttemptFail ==
    /\ \E w \in WorkersAt(AttemptPcs) : \E e \in FailKinds(w) :
        /\ workers' = Move(workers, w, WAt("sleep", w.Start, w.End, w.retry, e))
        /\ faults' = faults - FailCost(w)
    /\ inFlight' = inFlight - 1
    /\ UNCHANGED <<totalSize, asmPc, asmI, chunks, chunksClosed, results,
                       resultsClosed, errors, assembledData, currentOffset,
                       wbuf, pwClosed, prClosed, out, readerSaw, ctxCancelled,
                       sent, reordered, taken, tries, outcome, planIn,
                       planOut, rangeIn, rangeOut, upSize, upPc, upI,
                       semaphore, upTasks, upReads, upErrors, upWritten,
                       upDeleted, upDispatched, upRet, upFaults, hIn, hOut>>

\* A loop "for retry := 0; retry <= maxRetries; retry++".
RetryAgainInclusive(retry) == retry + 1 <= maxRetries

\* The loop condition retry < maxRetries after retry++.
RetryAgain(retry) == retry + 1 < maxRetries

\* The sleep ends, retry++, and the next GetFileDataRange call is made.
WRetry ==
    /\ \E w \in WorkersAt({"sleep"}) :
        /\ RetryAgain(w.retry)
        /\ workers' = Move(workers, w,
                            WAt(AttemptPc(w.err), w.Start, w.End, w.retry + 1, w.err))
        /\ tries' = [tries EXCEPT ![IndexOf(w.Start)] = @ + 1]
    /\ inFlight' = inFlight + 1
    /\ UNCHANGED <<totalSize, asmPc, asmI, chunks, chunksClosed, results,
                       resultsClosed, errors, assembledData, currentOffset,
                       wbuf, pwClosed, prClosed, out, readerSaw, ctxCancelled,
                       sent, reordered, taken, outcome, faults, planIn,
                       planOut, rangeIn, rangeOut, upSize, upPc, upI,
                       semaphore, upTasks, upReads, upErrors, upWritten,
                       upDeleted, upDispatched, upRet, upFaults, hIn, hOut>>

\* The sleep after the last attempt ends: results <- ChunkInfo{Error: err};
\* return (wg.Done()).
WGiveUp ==
    /\ \E w \in WorkersAt({"sleep"}) :
        /\ ~RetryAgain(w.retry)
        /\ workers' = Move(workers, w, WDone)
        /\ results' = Append(results, ErrorResult("fetch"))
        /\ sent' = [sent EXCEPT ![IndexOf(w.Start)] = @ + 1]
        /\ outcome' = [outcome EXCEPT ![IndexOf(w.Start)] = "fetch"]
    /\ UNCHANGED <<totalSize, asmPc, asmI, chunks, chunksClosed, resultsClosed,
                       errors, assembledData, currentOffset, wbuf, pwClosed,
                       prClosed, out, readerSaw, ctxCancelled, inFlight,
                       reordered, taken, tries, faults, planIn, planOut,
                       rangeIn, rangeOut, upSize, upPc, upI, semaphore,
                       upTasks, upReads, upErrors, upWritten, upDeleted,
                       upDispatched, upRet, upFaults, hIn, hOut>>

\* GetFileDataRange returns a reader (err == nil: break) and io.Copy reads the
\* whole payload: results <- ChunkInfo{Start, End, Data}, and the worker is
\* back at the range over chunks.  A call made under a cancelled context does
\* not succeed.
WFetchOk ==
    /\ ~ctxCancelled
    /\ \E w \in WorkersAt({"attempt"}) :
        /\ workers' = Move(workers, w, WRange)
        /\ results' = Append(results, [Start |-> w.Start,
                                       Data |-> FetchData(w.Start, w.End),
                                       Error |-> "nil"])
        /\ sent' = [sent EXCEPT ![IndexOf(w.Start)] = @ + 1]
        /\ outcome' = [outcome EXCEPT ![IndexOf(w.Start)] = "ok"]
    /\ inFlight' = inFlight - 1
    /\ UNCHANGED <<totalSize, asmPc, asmI, chunks, chunksClosed, resultsClosed,
                       errors, assembledData, currentOffset, wbuf, pwClosed,
                       prClosed, out, readerSaw, ctxCancelled, reordered,
                       taken, tries, faults, planIn, planOut, rangeIn,
                       rangeOut, upSize, upPc, upI, semaphore, upTasks,
                       upReads, upErrors, upWritten, upDeleted, upDispatched,
                       upRet, upFaults, hIn, hOut>>

\* Lengths of a payload that is shorter than the size bytes asked for.
ShortLens(size) == {size - 1, size \div 2}

\* GetFileDataRange returns a reader and io.Copy reads it to io.EOF without an
\* error, but the store has sent fewer bytes than the range asked for: the
\* result is sent with what was read.
WFetchShort ==
    /\ ~ctxCancelled
    /\ faults > 0
    /\ faults' = faults - 1
    /\ \E w \in WorkersAt({"attempt"}) : \E n \in ShortLens(w.End - w.Start + 1) :
        /\ workers' = Move(workers, w, WRange)
        /\ results' = Append(results, [Start |-> w.Start,
                                       Data |-> [from |-> w.Start, len |-> n],
                                       Error |-> "nil"])
        /\ sent' = [sent EXCEPT ![IndexOf(w.Start)] = @ + 1]
        /\ outcome' = [outcome EXCEPT ![IndexOf(w.Start)] = "ok"]
    /\ inFlight' = inFlight - 1
    /\ UNCHANGED <<totalSize, asmPc, asmI, chunks, chunksClosed, resultsClosed,
                       errors, assembledData, currentOffset, wbuf, pwClosed,
                       prClosed, out, readerSaw, ctxCancelled, reordered,
                       taken, tries, planIn, planOut, rangeIn, rangeOut,
                       upSize, upPc, upI, semaphore, upTasks, upReads,
                       upErrors, upWritten, upDeleted, upDispatched, upRet,
                       upFaults, hIn, hOut>>

\* GetFileDataRange returns a reader but io.Copy fails:
\* results <- ChunkInfo{Error: err}; return (wg.Done()).
WCopyFail ==
    /\ CanFail
    /\ faults' = Charged
    /\ \E w \in WorkersAt({"attempt"}) :
        /\ workers' = Move(workers, w, WDone)
        /\ results' = Append(results, ErrorResult("read"))
        /\ sent' = [sent EXCEPT ![IndexOf(w.Start)] = @ + 1]
        /\ outcome' = [outcome EXCEPT ![IndexOf(w.Start)] = "read"]
    /\ inFlight' = inFlight - 1
    /\ UNCHANGED <<totalSize, asmPc, asmI, chunks, chunksClosed, resultsClosed,
                       errors, assembledData, currentOffset, wbuf, pwClosed,
                       prClosed, out, readerSaw, ctxCancelled, reordered,
                       taken, tries, planIn, planOut, rangeIn, rangeOut,
                       upSize, upPc, upI, semaphore, upTasks, upReads,
                       upErrors, upWritten, upDeleted, upDispatched, upRet,
                       upFaults, hIn, hOut>>

AllWorkersDone == BagToSet(workers) = {WDone}

\* wg.Wait(); close(results)
CloseResults ==
    /\ AllWorkersDone
    /\ ~resultsClosed
    /\ resultsClosed' = TRUE
    /\ UNCHANGED <<totalSize, asmPc, asmI, chunks, chunksClosed, results, errors,
                       assembledData, currentOffset, wbuf, pwClosed, prClosed,
                       out, readerSaw, workers, ctxCancelled, sent, inFlight,
                       reordered, taken, tries, outcome, faults, planIn,
                       planOut, rangeIn, rangeOut, upSize, upPc, upI,
                       semaphore, upTasks, upReads, upErrors, upWritten,
                       upDeleted, upDispatched, upRet, upFaults, hIn, hOut>>

Running == asmPc # "done" \/ ~AllWorkersDone

\* The caller's ctx is cancelled while the transfer runs.
Cancel ==
    /\ ~ctxCancelled
    /\ Running
    /\ faults > 0
    /\ faults' = faults - 1
    /\ ctxCancelled' = TRUE
    /\ UNCHANGED <<totalSize, asmPc, asmI, chunks, chunksClosed, results,
                       resultsClosed, errors, assembledData, currentOffset,
                       wbuf, pwClosed, prClosed, out, readerSaw, workers,
                       sent, inFlight, reordered, taken, tries, outcome,
                       planIn, planOut, rangeIn, rangeOut, upSize, upPc, upI,
                       semaphore, upTasks, upReads, upErrors, upWritten,
                       upDeleted, upDispatched, upRet, upFaults, hIn, hOut>>

DlNext ==
    \/ AsmFill
    \/ AsmCloseChunks
    \/ AsmRecv
    \/ PipeRead
    \/ AsmWriteFail
    \/ ReaderEnd
    \/ ReaderClose
    \/ WDequeue
    \/ WExit
    \/ WAttemptFail
    \/ WRetry
    \/ WGiveUp
    \/ WFetchOk
    \/ WCopyFail
    \/ CloseResults
    \/ Cancel

Next == DlNext

Spec == Init /\ [][Next]_vars

\* A download whose request context is cancelled before its goroutines run
\* (the client has gone away): every store call fails.
OutageSizes == {defaultChunkSize, MaxChunks * defaultChunkSize}

OutageInit ==
    /\ DlInit(OutageSizes, TRUE)
    /\ planIn = <<0, 1>>
    /\ planOut = NoPlan
    /\ rangeIn = <<0, 0, 0>>
    /\ rangeOut = NoRange
    /\ UpInit({0}, 0)
    /\ HIdle

OutageNext ==
    \/ AsmFill
    \/ AsmCloseChunks
    \/ AsmRecv
    \/ ReaderEnd
    \/ WDequeue
    \/ WExit
    \/ WAttemptFail
    \/ WRetry
    \/ WGiveUp
    \/ CloseResults

SpecOutage == OutageInit /\ [][OutageNext]_vars

\* The download under the scheduling the Go runtime gives: a goroutine that
\* can take a step eventually takes one, a store call eventually returns (with
\* data or with an error), and the consumer keeps reading while a Write is
\* offered to it.  Whether the consumer closes the reader, and whether the
\* context is cancelled, is left open.  The downloads are the empty one, those
\* of one and two chunks with injected failures, one of maxWorkers+1 chunks
\* without failures, and one of maxWorkers+1 chunks whose store calls all fail.
Fairness ==
    /\ WF_vars(AsmFill)
    /\ WF_vars(AsmCloseChunks)
    /\ WF_vars(AsmRecv)
    /\ WF_vars(AsmWriteFail)
    /\ WF_vars(PipeRead)
    /\ WF_vars(WDequeue)
    /\ WF_vars(WExit)
    /\ WF_vars(WFetchOk \/ WAttemptFail \/ WCopyFail)
    /\ WF_vars(WRetry)
    /\ WF_vars(WGiveUp)
    /\ WF_vars(CloseResults)

LiveSizes == {0, 1, defaultChunkSize + 1, (maxWorkers + 1) * defaultChunkSize}

LiveInit ==
    /\ \/ DlInit(LiveSizes, FALSE)
       \/ DlInit({(maxWorkers + 1) * defaultChunkSize}, TRUE)
    /\ planIn = <<0, 1>>
    /\ planOut = NoPlan
    /\ rangeIn = <<0, 0, 0>>
    /\ rangeOut = NoRange
    /\ UpInit({0}, 0)
    /\ HIdle

SpecLive == LiveInit /\ [][Next]_vars /\ Fairness

\* The download with a store that may answer a range request with fewer bytes
\* than asked for, and no other failure.
ShortNext ==
    \/ AsmFill
    \/ AsmCloseChunks
    \/ AsmRecv
    \/ PipeRead
    \/ ReaderEnd
    \/ WDequeue
    \/ WExit
    \/ WFetchOk
    \/ WFetchShort
    \/ CloseResults

SpecShort == Init /\ [][ShortNext]_vars

\* ------------------------------------------------- the planning specification
\* The planning arithmetic is applied to inputs <<totalSize, chunk size>>.  The
\* code fixes the chunk size to defaultChunkSize (download) and chunkSize
\* (upload); the operators take it as a parameter, and both values are among
\* the inputs, next to small sizes and the sizes of the documented scenarios.
AroundMultiples(cs) ==
    {k * cs + d : k \in 0..3, d \in {-1, 0, 1}} \cap Nat

PlanInputs ==
    ((0..MaxPlanSize) \X (1..MaxPlanChunk))
        \cup (AroundMultiples(defaultChunkSize) \X {defaultChunkSize})
        \cup (AroundMultiples(chunkSize) \X {chunkSize})
        \cup {<<23000000, 5000000>>, <<5000000, 5000000>>, <<5000001, 5000000>>,
              <<23000000, defaultChunkSize>>, <<23000000, chunkSize>>}

PlanInit ==
    /\ DlInit({0}, FALSE)
    /\ planIn \in PlanInputs
    /\ planOut = NoPlan
    /\ rangeIn = <<0, 0, 0>>
    /\ rangeOut = NoRange
    /\ UpInit({0}, 0)
    /\ HIdle

\* The chunk planning of DownloadFileParallel: the descriptors sent on chunks.
PlanDownload ==
    /\ planOut.kind # "download"
    /\ planOut' = [kind |-> "download", chunks |-> DownloadPlan(planIn[1], planIn[2])]
    /\ UNCHANGED <<planIn>>
    /\ UNCHANGED dlVars
    /\ UNCHANGED rangeVars
    /\ UNCHANGED upVars
    /\ UNCHANGED hVars

\* The chunk planning of uploadFileParallel: offset and size of every chunk.
PlanUpload ==
    /\ planOut.kind # "upload"
    /\ planOut' = [kind |-> "upload", chunks |-> UploadPlan(planIn[1], planIn[2])]
    /\ UNCHANGED <<planIn>>
    /\ UNCHANGED dlVars
    /\ UNCHANGED rangeVars
    /\ UNCHANGED upVars
    /\ UNCHANGED hVars

PlanNext ==
    \/ PlanDownload
    \/ PlanUpload

SpecPlan == PlanInit /\ [][PlanNext]_vars

\* ---------------------------------------------------- the range specification
\* GetFileDataRange is applied to a file of SizeBytes bytes and a requested
\* range (start, end), with every outcome of GetFileInfo and of the store
\* requests.
\* if start < 0 { start = 0 }
ClampStart(start) == IF start < 0 THEN 0 ELSE start

\* A clamp of end to SizeBytes.
ClampEndToSize(end, size) == IF end >= size THEN size ELSE end

\* if end >= file.SizeBytes { end = file.SizeBytes - 1 }
ClampEnd(end, size) == IF end >= size THEN size - 1 ELSE end

\* A request that takes end as exclusive.
RangeRequestExclusive(key, start, end) ==
    [key |-> key, unit |-> "bytes", first |-> start, last |-> end - 1]

\* s3Client.GetObjectRange(ctx, key, start, end): a GetObject with the header
\* Range: bytes=<start>-<end>.
RangeRequest(key, start, end) ==
    [key |-> key, unit |-> "bytes", first |-> start, last |-> end]

\* Outcomes of GetFileInfo, of the request at the file's key and of the
\* request at the alternative key.
InfoOutcomes == {"ok", "denied", "error"}
FirstOutcomes == {"ok", "notfound", "error"}
AltOutcomes == {"ok", "error"}

\* The call: its result ("ok": a reader is returned; "invalid": the range
\* error; "info", "store": the error of GetFileInfo or of the store) and the
\* store requests it issued, in order.
GetFileDataRange(size, start, end, info, first, alt) ==
    IF info # "ok" THEN [res |-> "info", reqs |-> <<>>]
    ELSE LET s == ClampStart(start)
             e == ClampEnd(end, size)
         IN  IF s > e THEN [res |-> "invalid", reqs |-> <<>>]
             ELSE IF first = "ok"
                  THEN [res |-> "ok", reqs |-> <<RangeRequest("s3Key", s, e)>>]
             ELSE IF first = "notfound"
                  THEN [res |-> IF alt = "ok" THEN "ok" ELSE "store",
                        reqs |-> <<RangeRequest("s3Key", s, e),
                                   RangeRequest("alternativePath", s, e)>>]
             ELSE [res |-> "store", reqs |-> <<RangeRequest("s3Key", s, e)>>]

RangeInputs ==
    ((0..MaxRangeSize) \X (-1..(MaxRangeSize + 1)) \X (-1..(MaxRangeSize + 1)))
        \cup {<<10000, 1000, 1999>>, <<10000, 1000, 10000>>, <<10000, -1, 1999>>}

RangeInit ==
    /\ DlInit({0}, FALSE)
    /\ planIn = <<0, 1>>
    /\ planOut = NoPlan
    /\ rangeIn \in RangeInputs
    /\ rangeOut = NoRange
    /\ UpInit({0}, 0)
    /\ HIdle

RangeCall ==
    /\ rangeOut = NoRange
    /\ \E info \in InfoOutcomes, first \in FirstOutcomes, alt \in AltOutcomes :
        rangeOut' = GetFileDataRange(rangeIn[1], rangeIn[2], rangeIn[3],
                                     info, first, alt)
    /\ UNCHANGED <<rangeIn>>
    /\ UNCHANGED dlVars
    /\ UNCHANGED planVars
    /\ UNCHANGED upVars
    /\ UNCHANGED hVars

RangeNext ==
    \/ RangeCall

SpecRange == RangeInit /\ [][RangeNext]_vars

\* --------------------------------------------------- the upload specification
\* uploadFileParallel: the caller's loop starts one goroutine per chunk under
\* the semaphore, each goroutine reads its chunk of the file and uploads it
\* under its own key, and the caller waits for all of them.
\* A semaphore with one slot more.
SemaphoreCapExtra == maxConcurrentUploads + 1

\* semaphore := make(chan struct{}, maxConcurrentUploads)
SemaphoreCap == maxConcurrentUploads

\* A key that leaves out the chunk number.
ChunkKeyShared(chunkNum) == <<"s3Key", "chunk", 0>>

\* chunkKey := fmt.Sprintf("%s/chunk_%d", s3Key, chunkNum)
ChunkKey(chunkNum) == <<"s3Key", "chunk", chunkNum>>

\* if err != nil && err != io.EOF
ReadFailed(e) == e # "nil" /\ e # "EOF"

\* What file.ReadAt(chunk, offset) may return: nil; io.EOF when the chunk ends
\* at the end of the file; an error while the budget lasts.
ReadResults(chunkNum) ==
    {"nil"} \cup (IF chunkNum = upChunks - 1 THEN {"EOF"} ELSE {})
            \cup (IF upFaults > 0 THEN {"error"} ELSE {})

\* A caller that returns the error of chunk 0 only.
UploadReturnOfFirstChunk(errs) ==
    IF errs # <<>> /\ Head(errs).chunkNum = 0 THEN Head(errs) ELSE NilReturn

\* for err := range errors { if err != nil { return err } }; return nil
UploadReturn(errs) == IF errs = <<>> THEN NilReturn ELSE Head(errs)

UpSizes ==
    {-2 * chunkSize, -1, 0, 1}
        \cup {n * chunkSize : n \in 1..(MaxUpChunks - 1)}
        \cup {(MaxUpChunks - 1) * chunkSize + 1}

UploadInit ==
    /\ DlInit({0}, FALSE)
    /\ planIn = <<0, 1>>
    /\ planOut = NoPlan
    /\ rangeIn = <<0, 0, 0>>
    /\ rangeOut = NoRange
    /\ UpInit(UpSizes, MaxUpFaults)
    /\ HIdle

\* errors := make(chan error, chunks): a negative capacity panics.
UpMake ==
    /\ upPc = "entry"
    /\ upPc' = IF upChunks < 0 THEN "panicked" ELSE "loop"
    /\ UNCHANGED <<totalSize, asmPc, asmI, chunks, chunksClosed, results,
                       resultsClosed, errors, assembledData, currentOffset,
                       wbuf, pwClosed, prClosed, out, readerSaw, workers,
                       ctxCancelled, sent, inFlight, reordered, taken, tries,
                       outcome, faults, planIn, planOut, rangeIn, rangeOut,
                       upSize, upI, semaphore, upTasks, upReads, upErrors,
                       upWritten, upDeleted, upDispatched, upRet, upFaults,
                       hIn, hOut>>

\* wg.Add(1); semaphore <- struct{}{}; go func(chunkNum) {...}(i)
UpDispatch ==
    /\ upPc = "loop"
    /\ upI < upChunks
    /\ semaphore < SemaphoreCap
    /\ semaphore' = semaphore + 1
    /\ upTasks' = [upTasks EXCEPT ![upI] = "read"]
    /\ upDispatched' = [upDispatched EXCEPT ![upI] = @ + 1]
    /\ upI' = upI + 1
    /\ UNCHANGED <<totalSize, asmPc, asmI, chunks, chunksClosed, results,
                       resultsClosed, errors, assembledData, currentOffset,
                       wbuf, pwClosed, prClosed, out, readerSaw, workers,
                       ctxCancelled, sent, inFlight, reordered, taken, tries,
                       outcome, faults, planIn, planOut, rangeIn, rangeOut,
                       upSize, upPc, upReads, upErrors, upWritten, upDeleted,
                       upRet, upFaults, hIn, hOut>>

\* file.ReadAt returns without a failure.
UpReadOk ==
    /\ \E n \in DOMAIN upTasks : \E e \in ReadResults(n) :
        /\ upTasks[n] = "read"
        /\ ~ReadFailed(e)
        /\ upReads' = [upReads EXCEPT ![n] = e]
        /\ upTasks' = [upTasks EXCEPT ![n] = "upload"]
    /\ UNCHANGED <<totalSize, asmPc, asmI, chunks, chunksClosed, results,
                       resultsClosed, errors, assembledData, currentOffset,
                       wbuf, pwClosed, prClosed, out, readerSaw, workers,
                       ctxCancelled, sent, inFlight, reordered, taken, tries,
                       outcome, faults, planIn, planOut, rangeIn, rangeOut,
                       upSize, upPc, upI, semaphore, upErrors, upWritten,
                       upDeleted, upDispatched, upRet, upFaults, hIn, hOut>>

\* file.ReadAt fails: errors <- "failed to read chunk"; return, and the
\* deferred functions release the semaphore slot and call wg.Done().
UpReadFail ==
    /\ \E n \in DOMAIN upTasks : \E e \in ReadResults(n) :
        /\ upTasks[n] = "read"
        /\ ReadFailed(e)
        /\ upReads' = [upReads EXCEPT ![n] = e]
        /\ upTasks' = [upTasks EXCEPT ![n] = "failed"]
        /\ upErrors' = Append(upErrors, [err |-> "read", chunkNum |-> n])
        /\ upFaults' = IF e = "error" THEN upFaults - 1 ELSE upFaults
    /\ semaphore' = semaphore - 1
    /\ UNCHANGED <<totalSize, asmPc, asmI, chunks, chunksClosed, results,
                       resultsClosed, errors, assembledData, currentOffset,
                       wbuf, pwClosed, prClosed, out, readerSaw, workers,
                       ctxCancelled, sent, inFlight, reordered, taken, tries,
                       outcome, faults, planIn, planOut, rangeIn, rangeOut,
                       upSize, upPc, upI, upWritten, upDeleted, upDispatched,
                       upRet, hIn, hOut>>

\* s3Client.UploadBytes(chunkKey, chunk) succeeds and the goroutine ends.
UpUploadOk ==
    /\ \E n \in DOMAIN upTasks :
        /\ upTasks[n] = "upload"
        /\ upTasks' = [upTasks EXCEPT ![n] = "done"]
        /\ upWritten' = upWritten (+) SetToBag({[key |-> ChunkKey(n),
                                                  offset |-> UploadOffset(n, chunkSize),
                                                  size |-> UploadSize(n, upSize, chunkSize)]})
    /\ semaphore' = semaphore - 1
    /\ UNCHANGED <<totalSize, asmPc, asmI, chunks, chunksClosed, results,
                       resultsClosed, errors, assembledData, currentOffset,
                       wbuf, pwClosed, prClosed, out, readerSaw, workers,
                       ctxCancelled, sent, inFlight, reordered, taken, tries,
                       outcome, faults, planIn, planOut, rangeIn, rangeOut,
                       upSize, upPc, upI, upReads, upErrors, upDeleted,
                       upDispatched, upRet, upFaults, hIn, hOut>>

\* UploadBytes fails: errors <- "failed to upload chunk"; return.
UpUploadFail ==
    /\ upFaults > 0
    /\ \E n \in DOMAIN upTasks :
        /\ upTasks[n] = "upload"
        /\ upTasks' = [upTasks EXCEPT ![n] = "failed"]
        /\ upErrors' = Append(upErrors, [err |-> "upload", chunkNum |-> n])
    /\ upFaults' = upFaults - 1
    /\ semaphore' = semaphore - 1
    /\ UNCHANGED <<totalSize, asmPc, asmI, chunks, chunksClosed, results,
                       resultsClosed, errors, assembledData, currentOffset,
                       wbuf, pwClosed, prClosed, out, readerSaw, workers,
                       ctxCancelled, sent, inFlight, reordered, taken, tries,
                       outcome, faults, planIn, planOut, rangeIn, rangeOut,
                       upSize, upPc, upI, upReads, upWritten, upDeleted,
                       upDispatched, upRet, hIn, hOut>>

\* The loop is over, wg.Wait() returns, close(errors), and the first error on
\* the channel, or nil, is returned.
UpReturn ==
    /\ upPc = "loop"
    /\ upI >= upChunks
    /\ \A n \in DOMAIN upTasks : upTasks[n] \in {"done", "failed"}
    /\ upRet' = UploadReturn(upErrors)
    /\ upPc' = "returned"
    /\ UNCHANGED <<totalSize, asmPc, asmI, chunks, chunksClosed, results,
                       resultsClosed, errors, assembledData, currentOffset,
                       wbuf, pwClosed, prClosed, out, readerSaw, workers,
                       ctxCancelled, sent, inFlight, reordered, taken, tries,
                       outcome, faults, planIn, planOut, rangeIn, rangeOut,
                       upSize, upI, semaphore, upTasks, upReads, upErrors,
                       upWritten, upDeleted, upDispatched, upFaults, hIn,
                       hOut>>

UploadNext ==
    \/ UpMake
    \/ UpDispatch
    \/ UpReadOk
    \/ UpReadFail
    \/ UpUploadOk
    \/ UpUploadFail
    \/ UpReturn

SpecUpload == UploadInit /\ [][UploadNext]_vars

\* ------------------------------------------------ the handler specification
\* FileHandler.DownloadFile and FileHandler.StreamVideo answer a request for a
\* file of hIn.size bytes, with or without a Range header.  A Range header is
\* kept as strings.Split leaves it: whether it starts with "bytes=", and the
\* specs between commas, each the sequence of its parts between "-".
\* A check that leaves out "end >= fileSize".
RangeInvalidLoose(start, end, fileSize) == start < 0 \/ end < 0 \/ start > end

\* if start < 0 || end < 0 || start > end || end >= fileSize
RangeInvalid(start, end, fileSize) ==
    start < 0 \/ end < 0 \/ start > end \/ end >= fileSize

SpecError == [err |-> TRUE, skip |-> FALSE, start |-> 0, end |-> 0]

SpecRangeOf(start, end, fileSize) ==
    IF RangeInvalid(start, end, fileSize) THEN SpecError
    ELSE [err |-> FALSE, skip |-> FALSE, start |-> start, end |-> end]

\* The body of parseRange's loop for one spec r.
ParseSpec(r, fileSize) ==
    IF r = <<EmptyPart>> THEN [err |-> FALSE, skip |-> TRUE, start |-> 0, end |-> 0]
    ELSE IF Len(r) # 2 THEN SpecError
    ELSE IF r[1].kind = "empty"
         THEN IF r[2].kind # "num" THEN SpecError
              ELSE SpecRangeOf(fileSize - r[2].val, fileSize - 1, fileSize)
    ELSE IF r[1].kind # "num" THEN SpecError
    ELSE IF r[2].kind = "empty" THEN SpecRangeOf(r[1].val, fileSize - 1, fileSize)
    ELSE IF r[2].kind # "num" THEN SpecError
    ELSE SpecRangeOf(r[1].val, r[2].val, fileSize)

RECURSIVE ParseSpecs(_, _, _)
ParseSpecs(specs, fileSize, ranges) ==
    IF specs = <<>> THEN [err |-> FALSE, ranges |-> ranges]
    ELSE LET one == ParseSpec(Head(specs), fileSize)
         IN  IF one.err THEN [err |-> TRUE, ranges |-> <<>>]
             ELSE ParseSpecs(Tail(specs), fileSize,
                             IF one.skip THEN ranges
                             ELSE Append(ranges, <<one.start, one.end>>))

\* parseRange(rangeHeader, fileSize)
parseRange(header, fileSize) ==
    IF ~header.prefix THEN [err |-> TRUE, ranges |-> <<>>]
    ELSE ParseSpecs(header.specs, fileSize, <<>>)

\* w.WriteHeader(code): only the first status written counts.
WriteHeader(w, code) == IF w.status = 0 THEN [w EXCEPT !.status = code] ELSE w

\* http.Error(w, msg, code): WriteHeader(code), then the message as body.
HttpError(w, code) == [WriteHeader(w, code) EXCEPT !.body = "error"]

\* The handler from GetFileInfo on; which is "DownloadFile" or "StreamVideo",
\* hinfo the outcome of the handler's GetFileInfo, info, first and alt those
\* within GetFileDataRange.  DownloadFile sets Content-Length to the file size
\* before it looks at the Range header, StreamVideo only without one.
Handle(which, size, header, hinfo, info, first, alt) ==
    LET w0 == [NoResponse EXCEPT !.handler = which]
    IN  IF hinfo # "ok"
        THEN HttpError(w0, IF which = "DownloadFile" /\ hinfo = "denied" THEN 403 ELSE 500)
        ELSE
        LET w1 == IF which = "DownloadFile" \/ ~header.present
                  THEN [w0 EXCEPT !.declared = size] ELSE w0
            p == IF header.present THEN parseRange(header, size)
                 ELSE [err |-> FALSE, ranges |-> <<>>]
            w2 == [w1 EXCEPT !.parsed = p]
        IN  IF header.present /\ (p.err \/ Len(p.ranges) # 1)
            THEN HttpError(w2, 416)
            ELSE
            LET start == IF header.present THEN p.ranges[1][1] ELSE 0
                end == IF header.present THEN p.ranges[1][2] ELSE size - 1
                w3 == IF header.present
                      THEN WriteHeader([w2 EXCEPT !.declared = end - start + 1], 206)
                      ELSE WriteHeader(w2, 200)
                got == GetFileDataRange(size, start, end, info, first, alt)
                w4 == [w3 EXCEPT !.fetched = TRUE, !.start = start, !.end = end,
                                 !.fetchErr = (got.res # "ok")]
            IN  IF got.res # "ok" THEN HttpError(w4, 500)
                ELSE [w4 EXCEPT !.body = "data"]

\* Parts, specs and headers tried.
Parts == {EmptyPart, BadPart} \cup {Num(n) : n \in 0..(MaxFileSize + 1)}

Specs ==
    {<<p>> : p \in Parts} \cup {<<p, q>> : p, q \in Parts}
        \cup {<<p, q, r>> : p, q, r \in {EmptyPart, Num(1)}}

SecondSpecs ==
    {<<EmptyPart>>, <<Num(0), Num(0)>>, <<Num(1), EmptyPart>>, <<Num(2), Num(1)>>,
     <<BadPart, Num(0)>>}

Headers ==
    {NoHeader}
        \cup {[present |-> TRUE, prefix |-> b, specs |-> <<r>>] :
                 b \in BOOLEAN, r \in Specs}
        \cup {[present |-> TRUE, prefix |-> TRUE, specs |-> <<r, t>>] :
                 r \in SecondSpecs, t \in SecondSpecs}

HandlerInit ==
    /\ DlInit({0}, FALSE)
    /\ planIn = <<0, 1>>
    /\ planOut = NoPlan
    /\ rangeIn = <<0, 0, 0>>
    /\ rangeOut = NoRange
    /\ UpInit({0}, 0)
    /\ hIn \in [size : 0..MaxFileSize, header : Headers]
    /\ hOut = NoResponse

HandleWith(which) ==
    /\ hOut = NoResponse
    /\ \E hinfo \in InfoOutcomes, info \in InfoOutcomes,
          first \in FirstOutcomes, alt \in AltOutcomes :
        hOut' = Handle(which, hIn.size, hIn.header, hinfo, info, first, alt)
    /\ UNCHANGED <<hIn>>
    /\ UNCHANGED dlVars
    /\ UNCHANGED planVars
    /\ UNCHANGED rangeVars
    /\ UNCHANGED upVars

DownloadFile == HandleWith("DownloadFile")

StreamVideo == HandleWith("StreamVideo")

HandlerNext ==
    \/ DownloadFile
    \/ StreamVideo

SpecHandler == HandlerInit /\ [][HandlerNext]_vars

\* ------------------------------------------------------------------ properties
RECURSIVE SumLen(_)
SumLen(o) == IF o = <<>> THEN 0 ELSE o[1].len + SumLen(Tail(o))

\* Bytes the consumer has read so far.
Delivered == SumLen(out)

\* The whole object as one run.
Whole(total) == IF total = 0 THEN <<>> ELSE <<[from |-> 0, len |-> total]>>

ErrorResults == {k \in 1..Len(results) : results[k].Error # "nil"}

\* Every descriptor got a successful result and no error was recorded.
AllSucceeded ==
    /\ \A c \in DOMAIN sent : sent[c] = 1
    /\ ErrorResults = {}
    /\ errors = <<>>

\* A chunk has failed terminally: its error result was sent.
ChunkFailed ==
    \/ ErrorResults # {}
    \/ \E k \in 1..Len(errors) : errors[k] \in {"fetch", "read"}

\* A chunk has used up its retries and its error result was sent.
RetriesExhausted ==
    \/ \E k \in 1..Len(results) : results[k].Error = "fetch"
    \/ \E k \in 1..Len(errors) : errors[k] = "fetch"

Attempts(b) == {w \in BagToSet(b) : w.pc \in AttemptPcs}

\* A step in which no descriptor is dequeued and no fetch attempt begins.
NoNewWork ==
    /\ Len(chunks') >= Len(chunks)
    /\ Attempts(workers') \subseteq Attempts(workers)

\* Descriptors the assembler has placed on the chunks channel.
Placed == 0..((IF asmPc = "fill" THEN asmI ELSE numChunks) - 1)

\* C1: the assembler writes the payloads to the pipe in increasing offset
\* order: what has been written is always one run of the object starting at
\* byte 0, and a write in progress continues exactly where that run ends, so
\* no byte of a chunk is written before all bytes of the chunks before it.
C1_InOrder ==
    /\ out = <<>> \/ (Len(out) = 1 /\ out[1].from = 0)
    /\ asmPc = "write" => wbuf.from = Delivered /\ wbuf.len > 0

\* A payload is buffered ahead of the cursor while earlier bytes are already out.
C1_Witness ==
    /\ out # <<>>
    /\ DOMAIN assembledData # {}
    /\ currentOffset \notin DOMAIN assembledData

\* C2: whatever the order in which the results arrive, once the assembler has
\* finished a download all of whose chunks succeeded, the consumer has read the
\* object's bytes [0, totalSize) in order and the write side is closed with
\* end-of-stream.
C2_Stream ==
    (asmPc = "done" /\ AllSucceeded) =>
        /\ out = Whole(totalSize)
        /\ pwClosed = "EOF"
        /\ readerSaw \in {"none", "EOF"}

\* A download of several chunks whose results arrived out of order was read to
\* its end.
C2_Witness ==
    /\ asmPc = "done"
    /\ AllSucceeded
    /\ reordered
    /\ numChunks >= 3
    /\ readerSaw = "EOF"
    /\ out = Whole(totalSize)

\* The byte ranges of the plan computed: [Start, End] of a download descriptor,
\* [offset, offset+size-1] of an upload chunk.
PlanRanges ==
    [k \in 1..Len(planOut.chunks) |->
        IF planOut.kind = "download"
        THEN [lo |-> planOut.chunks[k].Start, hi |-> planOut.chunks[k].End]
        ELSE [lo |-> planOut.chunks[k].offset,
              hi |-> planOut.chunks[k].offset + planOut.chunks[k].size - 1]]

PlanSizes == [k \in 1..Len(planOut.chunks) |-> PlanRanges[k].hi - PlanRanges[k].lo + 1]

PlanOffsets == [k \in 1..Len(planOut.chunks) |-> PlanRanges[k].lo]

\* C3: the chunks planned for a transfer of totalSize >= 0 bytes are contiguous
\* and cover exactly [0, totalSize): none for an empty transfer; otherwise the
\* first starts at 0, each starts right after the end of the one before, none
\* is empty, and the last ends at totalSize-1.
C3_Coverage ==
    planOut.kind # "none" =>
        LET r == PlanRanges
            total == planIn[1]
        IN  /\ total = 0 => r = <<>>
            /\ total > 0 => /\ Len(r) >= 1
                            /\ r[1].lo = 0
                            /\ r[Len(r)].hi = total - 1
            /\ \A k \in 1..Len(r) :
                /\ r[k].lo <= r[k].hi
                /\ k > 1 => r[k].lo = r[k - 1].hi + 1

\* A plan of several chunks whose last chunk is shorter than the others.
C3_Witness ==
    /\ planOut.kind = "download"
    /\ Len(planOut.chunks) >= 3
    /\ planIn[2] = defaultChunkSize
    /\ PlanSizes[Len(planOut.chunks)] < planIn[2]

\* C4: the number n of planned chunks is ceil(totalSize / chunkSize), that is
\* (n-1)*chunkSize < totalSize <= n*chunkSize; every chunk but the last has
\* chunkSize bytes and the last has totalSize - (n-1)*chunkSize, between 1 and
\* chunkSize; totalSize = chunkSize gives one chunk, chunkSize+1 two chunks
\* with the second of one byte, and 23,000,000 bytes in chunks of 5,000,000
\* give sizes [5000000 x 4, 3000000] at offsets 0, 5000000, ..., 20000000.
C4_Count ==
    planOut.kind # "none" =>
        LET n == Len(planOut.chunks)
            total == planIn[1]
            cs == planIn[2]
        IN  /\ n * cs >= total
            /\ n > 0 => (n - 1) * cs < total
            /\ \A k \in 1..(n - 1) : PlanSizes[k] = cs
            /\ n > 0 => /\ PlanSizes[n] = total - (n - 1) * cs
                        /\ PlanSizes[n] \in 1..cs
            /\ total = cs => n = 1
            /\ total = cs + 1 => n = 2 /\ PlanSizes[2] = 1
            /\ planIn = <<23000000, 5000000>> =>
                /\ PlanSizes = <<5000000, 5000000, 5000000, 5000000, 3000000>>
                /\ PlanOffsets = <<0, 5000000, 10000000, 15000000, 20000000>>

\* The documented scenario has been planned.
C4_Witness ==
    /\ planIn = <<23000000, 5000000>>
    /\ planOut.kind = "download"
    /\ Len(planOut.chunks) = 5

\* C5: every descriptor placed on the chunks channel gets exactly one result:
\* never more than one, and one once all workers have returned.
C5_ExactlyOnce ==
    /\ \A c \in DOMAIN sent : sent[c] <= 1
    /\ AllWorkersDone => \A c \in Placed : sent[c] = 1

\* C6: the stream ends with a clean end-of-stream only when all totalSize bytes
\* were delivered and no chunk failed; after a terminal chunk failure the
\* consumer sees an error.
C6_ErrorSurfaces ==
    readerSaw = "EOF" => (Delivered = totalSize /\ ~ChunkFailed)

\* C7: once a chunk has used up its retries and its error result has been
\* sent, no worker dequeues a descriptor or begins a fetch attempt.
C7_CancelOnFailure == [][RetriesExhausted => NoNewWork]_vars

\* C8: after the request context was cancelled (and nothing else went wrong),
\* the consumer does not see a clean end-of-stream short of totalSize bytes.
C8_CancelSurfaces ==
    (ctxCancelled /\ faults = Budget(totalSize) - 1 /\ readerSaw = "EOF") =>
        Delivered = totalSize

\* C9: once the context is cancelled no worker dequeues a descriptor or begins
\* a fetch attempt, first or retry.
C9_NoWorkAfterCancel == [][ctxCancelled => NoNewWork]_vars

\* C10: at most maxWorkers fetches are in flight at any instant.
C10_Bounded == inFlight <= maxWorkers

\* All workers are fetching while descriptors wait in the queue.
C10_Witness ==
    /\ inFlight = maxWorkers
    /\ chunks # <<>>

\* Successful payloads fetched and not yet written to the pipe: those waiting
\* on the results channel and those held in assembledData (the entry at the
\* cursor stays there until pw.Write has returned).
Unwritten ==
    Cardinality({k \in 1..Len(results) : results[k].Error = "nil"})
        + Cardinality(DOMAIN assembledData)

\* C11: the fetched payloads not yet written to the output never number more
\* than maxWorkers.
C11_BufferBounded == Unwritten <= maxWorkers

\* Error results sent by workers so far: those still on the results channel
\* and the one the assembler has taken and recorded.
ErrorResultsSent ==
    Cardinality(ErrorResults)
        + Cardinality({k \in 1..Len(errors) : errors[k] \in {"fetch", "read"}})

\* C12: a chunk is fetched at most maxRetries times; a chunk one of whose
\* attempts succeeded has exactly one result, the success carrying the whole
\* payload of its range; an error for failed GetFileDataRange calls is sent
\* only after maxRetries of them, and no error result exists beyond the one of
\* each chunk that failed for good.
C12_RetryLocal ==
    /\ \A c \in DOMAIN tries :
        /\ tries[c] <= maxRetries
        /\ sent[c] <= 1
        /\ outcome[c] = "ok" => sent[c] = 1
        /\ outcome[c] = "fetch" => tries[c] = maxRetries
    /\ \A k \in 1..Len(results) :
        results[k].Error = "nil" =>
            /\ outcome[IndexOf(results[k].Start)] = "ok"
            /\ results[k].Data =
                   FetchData(results[k].Start,
                             ChunkEnd(IndexOf(results[k].Start), totalSize, defaultChunkSize))
    /\ ErrorResultsSent = Cardinality({c \in DOMAIN outcome : outcome[c] \in {"fetch", "read"}})

\* A chunk whose first two attempts failed and whose third succeeded, in a
\* download that was delivered whole with no error recorded.
C12_Witness ==
    /\ \E c \in DOMAIN tries : tries[c] = maxRetries /\ outcome[c] = "ok"
    /\ ErrorResultsSent = 0
    /\ Delivered = totalSize
    /\ readerSaw = "EOF"

\* C13: after a GetFileDataRange call of a chunk has failed with a terminal
\* error (object not found, access denied) the worker neither waits nor calls
\* again for that chunk: the error is reported after that one attempt.
C13_TerminalNotRetried ==
    \A w \in BagToSet(workers) :
        w.err = "terminal" => w.pc \notin ({"sleep"} \cup AttemptPcs)

\* C14: every attempt of a chunk starts with a fresh 30 s deadline: no call is
\* begun under a deadline that an earlier attempt of the chunk has used up.
C14_FreshDeadline ==
    \A w \in BagToSet(workers) :
        w.pc \in AttemptPcs => w.err # "timeout"

\* C15: backoff waits happen between attempts only: a worker waits after a
\* failed attempt only when another attempt follows, so the third failure of a
\* chunk is reported without a third wait.
C15_WaitsBetweenAttempts ==
    \A w \in BagToSet(workers) :
        w.pc = "sleep" => RetryAgain(w.retry)

\* C16: at most one error is ever recorded on the errors channel (capacity 1,
\* so the send never blocks), and once an error is recorded the assembler
\* takes no further result from the results channel, stores no payload and
\* writes no further byte to the output.
C16_FirstErrorFinal ==
    [][/\ Len(errors') <= 1
       /\ errors # <<>> =>
            /\ errors' = errors
            /\ Len(results') >= Len(results)
            /\ assembledData' = assembledData
            /\ out' = out]_vars

\* The assembler has recorded the error of one chunk and returned; the result
\* of another chunk, sent afterwards, stays on the results channel.
C16_Witness ==
    /\ Len(errors) = 1
    /\ errors[1] \in {"fetch", "read"}
    /\ asmPc = "done"
    /\ results # <<>>
    /\ resultsClosed

\* Worker states holding a descriptor.
Holding == {w \in BagToSet(workers) : w.pc \notin {"range", "done"}}

\* C17: every descriptor is dequeued at most once, and at no time do two
\* workers hold the same descriptor: the workers that hold one hold descriptors
\* of pairwise different byte ranges.
C17_NoSharedDescriptor ==
    /\ \A c \in DOMAIN taken : taken[c] <= 1
    /\ \A w \in Holding : CopiesIn(w, workers) = 1
    /\ \A v, w \in Holding : v.Start = w.Start => v = w

\* All workers hold descriptors, each a different one, while one more waits.
C17_Witness ==
    /\ Cardinality(Holding) = maxWorkers
    /\ chunks # <<>>
    /\ \A c \in DOMAIN taken : taken[c] <= 1

\* Every goroutine of the download has returned and the consumer is done.
Finished ==
    /\ asmPc = "done"
    /\ AllWorkersDone
    /\ resultsClosed
    /\ readerSaw # "none" \/ prClosed

\* C18: for totalSize = 0 no descriptor is planned or queued, no fetch is made
\* and no result or error exists; the stream carries zero bytes and ends with
\* a clean end-of-stream once the assembler has returned; and the download
\* cannot get stuck: as long as something is left to do a step is possible,
\* until the assembler and all workers have returned and results is closed.
C18_EmptyDownload ==
    totalSize = 0 =>
        /\ numChunks = 0
        /\ chunks = <<>>
        /\ Holding = {}
        /\ inFlight = 0
        /\ results = <<>>
        /\ errors = <<>>
        /\ out = <<>>
        /\ readerSaw \in {"none", "EOF"}
        /\ asmPc = "done" => pwClosed = "EOF"
        /\ Finished \/ ENABLED Next

\* The empty download has run to its end and the consumer has read
\* end-of-stream after zero bytes.
C18_Witness ==
    /\ totalSize = 0
    /\ Finished
    /\ readerSaw = "EOF"
    /\ out = <<>>

\* The requested range satisfies 0 <= start <= end < SizeBytes.
InBounds == 0 <= rangeIn[2] /\ rangeIn[2] <= rangeIn[3] /\ rangeIn[3] < rangeIn[1]

\* The call got past GetFileInfo and has returned.
RangeDecided == rangeOut.res \in {"ok", "invalid", "store"}

Max2(a, b) == IF a >= b THEN a ELSE b

Min2(a, b) == IF a <= b THEN a ELSE b

\* C19: a range that does not satisfy 0 <= start <= end < totalSize is
\* rejected with the invalid-range error and no store request is issued for it.
C19_RejectsOutOfBounds ==
    (RangeDecided /\ ~InBounds) =>
        /\ rangeOut.res = "invalid"
        /\ rangeOut.reqs = <<>>

\* C19 as the code has it: start is raised to 0 and end lowered to
\* SizeBytes-1; the call is rejected with the invalid-range error, without any
\* store request, exactly when the range so clamped is empty; otherwise every
\* store request carries the clamped range, which lies within the object.
C19_ClampsThenRejects ==
    RangeDecided =>
        LET s == Max2(rangeIn[2], 0)
            e == Min2(rangeIn[3], rangeIn[1] - 1)
        IN  /\ rangeOut.res = "invalid" <=> s > e
            /\ rangeOut.res = "invalid" => rangeOut.reqs = <<>>
            /\ rangeOut.res # "invalid" =>
                /\ rangeOut.reqs # <<>>
                /\ \A k \in 1..Len(rangeOut.reqs) :
                    /\ rangeOut.reqs[k].first = s
                    /\ rangeOut.reqs[k].last = e
                    /\ 0 <= s /\ s <= e /\ e < rangeIn[1]

\* A range reaching past both ends of the object was served, clamped.
C19_Witness ==
    /\ rangeIn[2] < 0
    /\ rangeIn[3] >= rangeIn[1]
    /\ rangeOut.res = "ok"
    /\ rangeOut.reqs[1].first = 0
    /\ rangeOut.reqs[1].last = rangeIn[1] - 1

\* Bytes a store request asks for.
RequestBytes(r) == r.last - r.first + 1

\* C20: for an in-bounds range the call is not rejected and every store
\* request it issues, at the file's key and at the alternative key, carries
\* exactly start and end, that is end-start+1 bytes; bytes=1000-1999 of a file
\* of 10000 bytes gives requests for [1000, 1999], 1000 bytes.
C20_ExactRange ==
    (RangeDecided /\ InBounds) =>
        /\ rangeOut.res # "invalid"
        /\ Len(rangeOut.reqs) \in {1, 2}
        /\ \A k \in 1..Len(rangeOut.reqs) :
            /\ rangeOut.reqs[k].unit = "bytes"
            /\ rangeOut.reqs[k].first = rangeIn[2]
            /\ rangeOut.reqs[k].last = rangeIn[3]
            /\ RequestBytes(rangeOut.reqs[k]) = rangeIn[3] - rangeIn[2] + 1
        /\ rangeIn = <<10000, 1000, 1999>> =>
            /\ rangeOut.reqs[1].first = 1000
            /\ rangeOut.reqs[1].last = 1999
            /\ RequestBytes(rangeOut.reqs[1]) = 1000

\* The documented range was served from the alternative key after the file's
\* key was not found.
C20_Witness ==
    /\ rangeIn = <<10000, 1000, 1999>>
    /\ rangeOut.res = "ok"
    /\ Len(rangeOut.reqs) = 2

\* The write of chunk n as UploadBytes is to be called for it.
ChunkWrite(n) ==
    [key |-> <<"s3Key", "chunk", n>>,
     offset |-> n * chunkSize,
     size |-> IF (n + 1) * chunkSize > upSize THEN upSize - n * chunkSize ELSE chunkSize]

\* The read of chunk n returned its bytes and its write to the store succeeded.
ChunkSucceeded(n) ==
    /\ upReads[n] \in {"nil", "EOF"}
    /\ BagIn(ChunkWrite(n), upWritten)

\* C21: when uploadFileParallel has returned, it returned nil if and only if
\* the read and the store write of every chunk succeeded; otherwise it
\* returned the error of a chunk that failed.
C21_AllOrNothing ==
    upPc = "returned" =>
        /\ upRet = NilReturn <=> \A n \in DOMAIN upTasks : ChunkSucceeded(n)
        /\ upRet # NilReturn =>
            /\ upRet.err \in {"read", "upload"}
            /\ upRet.chunkNum \in DOMAIN upTasks
            /\ ~ChunkSucceeded(upRet.chunkNum)

\* An upload of several chunks whose last chunk failed after all others were
\* written has returned that error.
C21_Witness ==
    /\ upPc = "returned"
    /\ upChunks >= 3
    /\ upRet.err = "upload"
    /\ upRet.chunkNum = upChunks - 1
    /\ \A n \in 0..(upChunks - 2) : ChunkSucceeded(n)

\* C22: when a parallel upload has returned an error, DeleteObject was called
\* for the key of every chunk that had been written.
C22_CleanupOnFailure ==
    (upPc = "returned" /\ upRet # NilReturn) =>
        \A w \in BagToSet(upWritten) : w.key \in upDeleted

\* C23: every chunk index is dispatched at most once, and exactly once when
\* the call has returned; the writes made have pairwise different keys and
\* pairwise disjoint, non-empty byte ranges within [0, totalSize), and no key
\* is written twice.
C23_DisjointChunks ==
    /\ \A n \in DOMAIN upDispatched :
        /\ upDispatched[n] <= 1
        /\ upDispatched[n] = 1 <=> n < upI
        /\ upPc = "returned" => upDispatched[n] = 1
    /\ \A w \in BagToSet(upWritten) :
        /\ CopiesIn(w, upWritten) = 1
        /\ w.size > 0
        /\ 0 <= w.offset /\ w.offset + w.size <= upSize
    /\ \A v, w \in BagToSet(upWritten) :
        v # w => /\ v.key # w.key
                 /\ v.offset + v.size <= w.offset \/ w.offset + w.size <= v.offset

\* All chunks of a six-chunk upload were written.
C23_Witness ==
    /\ upPc = "returned"
    /\ upChunks = MaxUpChunks
    /\ Cardinality(BagToSet(upWritten)) = MaxUpChunks

\* Chunk goroutines that have started and not ended.
UpRunning == {n \in DOMAIN upTasks : upTasks[n] \in {"read", "upload"}}

\* C24: at most maxConcurrentUploads chunk goroutines run at any instant, and
\* the slots taken in the semaphore are exactly those of the running ones: a
\* slot is taken before a goroutine starts and given back when it ends, on
\* success and on both error paths.
C24_UploadBounded ==
    /\ Cardinality(UpRunning) <= maxConcurrentUploads
    /\ semaphore = Cardinality(UpRunning)

\* The dispatcher waits for a slot while maxConcurrentUploads goroutines run
\* and a chunk is still to be started.
C24_Witness ==
    /\ Cardinality(UpRunning) = maxConcurrentUploads
    /\ semaphore = SemaphoreCap
    /\ upI < upChunks

\* C26: a negative totalSize is rejected with an invalid-argument error: the
\* call neither panics nor returns anything else.
C26_RejectsNegative ==
    upSize < 0 =>
        /\ upPc # "panicked"
        /\ upRet.err \in {"none", "invalid"}

\* C25: a request whose GetFileDataRange call returned an error is not
\* answered with status 200 or 206.
C25_FailureNotSuccess ==
    hOut.fetchErr => hOut.status \notin {200, 206}

\* A spec of one of the forms N-M, N- and -N, and the range it stands for.
WellFormed(r) ==
    /\ Len(r) = 2
    /\ \/ r[1].kind = "num" /\ r[2].kind \in {"num", "empty"}
       \/ r[1].kind = "empty" /\ r[2].kind = "num"

MeantStart(r, size) == IF r[1].kind = "num" THEN r[1].val ELSE size - r[2].val

MeantEnd(r, size) == IF r[1].kind = "num" /\ r[2].kind = "num" THEN r[2].val ELSE size - 1

\* The handler got past GetFileInfo with a Range header, so parseRange ran.
Parsed == hOut.handler # "none" /\ hIn.header.present /\ hOut.status \in {206, 416}

\* C30: every range parseRange returns satisfies 0 <= start <= end < fileSize;
\* a header with the prefix and one spec of the form N-M, N- or -N gives
\* exactly the range it stands for when that range is in bounds, and an error
\* otherwise, as does every spec of another form; and the handlers answer 416
\* without calling GetFileDataRange when parsing fails or does not give
\* exactly one range, and else fetch exactly the parsed range with status 206.
C30_ParseRange ==
    Parsed =>
        LET p == hOut.parsed
            size == hIn.size
            specs == hIn.header.specs
        IN  /\ \A k \in 1..Len(p.ranges) :
                /\ 0 <= p.ranges[k][1]
                /\ p.ranges[k][1] <= p.ranges[k][2]
                /\ p.ranges[k][2] < size
            /\ ~hIn.header.prefix => p.err
            /\ (hIn.header.prefix /\ Len(specs) = 1 /\ specs[1] # <<EmptyPart>>) =>
                LET r == specs[1]
                    ok == /\ WellFormed(r)
                          /\ 0 <= MeantStart(r, size)
                          /\ MeantStart(r, size) <= MeantEnd(r, size)
                          /\ MeantEnd(r, size) < size
                IN  /\ ok => (~p.err /\ p.ranges = <<<<MeantStart(r, size), MeantEnd(r, size)>>>>)
                    /\ ~ok => p.err
            /\ (p.err \/ Len(p.ranges) # 1) => (hOut.status = 416 /\ ~hOut.fetched)
            /\ (~p.err /\ Len(p.ranges) = 1) =>
                /\ hOut.status = 206
                /\ hOut.fetched
                /\ <<hOut.start, hOut.end>> = p.ranges[1]
                /\ hOut.declared = hOut.end - hOut.start + 1

\* A suffix range -2 was served as the last two bytes of the file.
C30_Witness ==
    /\ Parsed
    /\ hIn.header.specs = <<<<EmptyPart, Num(2)>>>>
    /\ hIn.size = MaxFileSize
    /\ hOut.status = 206
    /\ hOut.start = MaxFileSize - 2
    /\ hOut.end = MaxFileSize - 1
    /\ hOut.body = "data"

\* The assembler has received the result of chunk j: its payload is in
\* assembledData or the cursor has passed its start.
Received(j) ==
    \/ ChunkStart(j, defaultChunkSize) \in DOMAIN assembledData
    \/ ChunkStart(j, defaultChunkSize) < currentOffset

\* C27: the stream is fed as results come in: while the consumer has not
\* closed it, whenever the results of chunks 0..i have all been received the
\* bytes of chunk i are written or the assembler is in pw.Write offering bytes
\* up to chunk i to the reader; it never waits for another result while it
\* holds the chunk at the cursor.
C27_Progressive ==
    ~prClosed =>
        /\ \A i \in 0..(numChunks - 1) :
            (\A j \in 0..i : Received(j)) =>
                \/ currentOffset > ChunkEnd(i, totalSize, defaultChunkSize)
                \/ /\ asmPc = "write"
                   /\ wbuf.from <= ChunkEnd(i, totalSize, defaultChunkSize)
        /\ asmPc \in {"recv", "done"} => currentOffset \notin DOMAIN assembledData

\* All bytes of chunk 0 were read by the consumer before any other chunk of a
\* download of several chunks had a result.
C27_Witness ==
    /\ numChunks >= 3
    /\ Delivered = defaultChunkSize
    /\ \A c \in 1..(numChunks - 1) : sent[c] = 0
    /\ asmPc = "recv"

\* C28: every successful result waiting for the assembler carries as many
\* bytes as its descriptor asked for, and when the output is closed without
\* any error recorded the cursor is at totalSize and assembledData is empty.
C28_PayloadComplete ==
    /\ \A k \in 1..Len(results) :
        results[k].Error = "nil" =>
            results[k].Data.len =
                ChunkEnd(IndexOf(results[k].Start), totalSize, defaultChunkSize)
                    - results[k].Start + 1
    /\ (pwClosed = "EOF" /\ errors = <<>>) =>
        /\ currentOffset = totalSize
        /\ DOMAIN assembledData = {}

\* The pipe is closed and the assembler, all workers and the goroutine that
\* closes results have returned.
Terminated ==
    /\ asmPc = "done"
    /\ pwClosed # "open"
    /\ AllWorkersDone
    /\ resultsClosed

\* C29: every download terminates: whatever chunks succeed or fail, also when
\* all workers have returned with descriptors still queued, the pipe is
\* eventually closed and every goroutine of the download has returned.
C29_Terminates == <>Terminated

\* All workers have returned after failures while a descriptor is still
\* queued, and the download has terminated.
C29_Witness ==
    /\ Terminated
    /\ chunks # <<>>
    /\ ErrorResultsSent = maxWorkers

====
